---- MODULE Spec2Model ----
(***************************************************************************)
(* Model of main.py of the fantasy-football-metrics-weekly-report app:     *)
(* the module-level config.ini check, main(argv) (dependency preflight and *)
(* getopt option parsing), the interactive resolvers select_league and     *)
(* select_week, and the __main__ script that builds the report and fans    *)
(* it out to Google Drive and Slack.                                       *)
(*                                                                         *)
(* Python values: None is the string "None"; a week is the text the        *)
(* operator typed (main.py never converts it, it only tests int(text));    *)
(* a report object is the index of the FantasyFootballReport(...) call     *)
(* that built it, 0 standing for None.                                     *)
(***************************************************************************)
EXTENDS Integers, Sequences, FiniteSets, TLC

(* ------------------------------ bounds -------------------------------- *)
\* longest requirements.txt explored
MaxDeps == 2
\* longest argument vector explored
MaxArgs == 3
\* most options (each with its argument) in an argument vector of well-formed options
MaxOptions == 2
\* deepest nesting of select_league / select_week invocations explored
MaxDepth == 3

(* --------------------------- python values ---------------------------- *)
None == "None"
NoReport == 0
NoExit == -1
NaN == -1000

\* texts the operator can give where a week number is expected
WeekTexts == {"0", "1", "17", "18", "abc"}
\* texts the operator can give where a league ID is expected
LeagueTexts == {"good", "bad"}
\* league IDs for which the report builder finds a league
ExistingLeagues == {"good"}
\* answers the operator can give to a (y/n) prompt
Answers == {"y", "n", "selected", "x"}

\* int(text): the integer the text denotes, NaN where int() raises ValueError
int(text) ==
    CASE text = "0" -> 0
      [] text = "1" -> 1
      [] text = "17" -> 17
      [] text = "18" -> 18
      [] OTHER -> NaN

\* python truthiness of an optional string: None and "" are falsy
Falsy(v) == v = None \/ v = ""

(* ------------------------------ getopt -------------------------------- *)
\* the short option string of main.py: options that take no argument ...
FlagOpts == {"h", "s", "r", "b", "q", "t", "d"}
\* ... and options followed by a colon, which take one
ArgOpts == {"f", "l", "w", "g", "y", "p"}
\* the long option list handed to getopt.getopt: none is passed
LongOpts == {}

\* command-line tokens: a short option -c, a long option --name, or a word
Short(c) == [kind |-> "short", name |-> c]
Long(n) == [kind |-> "long", name |-> n]
Word(w) == [kind |-> "word", name |-> w]
Opt(o, a) == [opt |-> o, arg |-> a]

GetoptError == <<Opt("GetoptError", "")>>

\* getopt.getopt(argv, "hf:l:w:g:y:srp:bqtd"): the (opt, arg) pairs, or
\* GetoptError; scanning stops at the first token that is not an option
RECURSIVE getopt(_)
getopt(argv) ==
    IF argv = <<>> THEN <<>>
    ELSE LET tok == Head(argv)
             rest == Tail(argv)
         IN  CASE tok.kind = "word" -> <<>>
               [] tok.kind = "long" ->
                    IF tok.name \in LongOpts
                    THEN LET r == getopt(rest)
                         IN  IF r = GetoptError THEN r
                             ELSE <<Opt(tok.name, "")>> \o r
                    ELSE GetoptError
               [] tok.kind = "short" ->
                    IF tok.name \in FlagOpts
                    THEN LET r == getopt(rest)
                         IN  IF r = GetoptError THEN r
                             ELSE <<Opt(tok.name, "")>> \o r
                    ELSE IF tok.name \in ArgOpts
                    THEN IF rest = <<>> THEN GetoptError
                         ELSE LET r == getopt(Tail(rest))
                              IN  IF r = GetoptError THEN r
                                  ELSE <<Opt(tok.name, Head(rest).name)>> \o r
                    ELSE GetoptError

\* the tokens argument vectors are drawn from
ArgTokens ==
    {Short(c) : c \in {"h", "l", "w", "t", "x"}}
        \cup {Long("week")}
        \cup {Word(w) : w \in WeekTexts \cup LeagueTexts}

RECURSIVE SeqsUpTo(_, _)
SeqsUpTo(S, n) ==
    IF n = 0 THEN {<<>>}
    ELSE LET shorter == SeqsUpTo(S, n - 1)
         IN  shorter \cup {Append(s, x) : s \in {t \in shorter : Len(t) = n - 1}, x \in S}

\* well-formed options: -h, -t, -l <league>, -w <week>
OptionUnits ==
    {<<Short("h")>>, <<Short("t")>>}
        \cup {<<Short("l"), Word(l)>> : l \in LeagueTexts}
        \cup {<<Short("w"), Word(w)>> : w \in WeekTexts}

RECURSIVE Flatten(_)
Flatten(units) == IF units = <<>> THEN <<>> ELSE Head(units) \o Flatten(Tail(units))

\* sys.argv[1:]: any tokens up to MaxArgs, or up to MaxOptions well-formed options
ArgVectors ==
    SeqsUpTo(ArgTokens, MaxArgs)
        \cup {Flatten(units) : units \in SeqsUpTo(OptionUnits, MaxOptions)}

\* the long form the usage text gives for each option (lines 75-90), as
\* tested next to the short form on lines 101-136
LongName(c) ==
    CASE c = "h" -> "help"
      [] c = "f" -> "fantasy-platform"
      [] c = "l" -> "league-id"
      [] c = "w" -> "week"
      [] c = "g" -> "game-id"
      [] c = "y" -> "year"
      [] c = "s" -> "save-data"
      [] c = "r" -> "refresh-web-data"
      [] c = "p" -> "playoff-prob-sims"
      [] c = "b" -> "break-ties"
      [] c = "q" -> "disqualify-ce"
      [] c = "t" -> "test"
      [] c = "d" -> "dev-offline"

\* "opt in ("-w", "--week")": the option an opt string selects
OptionLetter(opt) ==
    IF \E c \in FlagOpts \cup ArgOpts : LongName(c) = opt
    THEN CHOOSE c \in FlagOpts \cup ArgOpts : LongName(c) = opt
    ELSE opt

(* ------------------------------- state -------------------------------- *)
VARIABLES
    pc,                        \* position of the top-level control flow
    exit_code,                 \* status the process ended with, NoExit while running
    error,                     \* the uncaught exception that ended the run, "" if none
    dependencies,              \* requirements.txt: what require() does for each line
    depIdx,                    \* number of dependencies already checked
    missing_dependency_count,
    loggedDeps,                \* indices that got a "MISSING DEPENDENCY: ..." log line
    summary,                   \* the "MISSING N ..." summary line, n = 0 when not logged
    argv,                      \* sys.argv[1:] until getopt.getopt has consumed it
    opts,                      \* the (opt, arg) pairs main still has to look at
    options_dict,
    stack,                     \* active select_league / select_week invocations
    ret,                       \* value being returned by the invocation that just ended
    builderCalls,              \* every FantasyFootballReport(...) call made so far
    report,                    \* what select_league handed back to __main__
    google_drive_upload,       \* config values, as read by __main__
    post_to_slack,
    post_or_file,
    upload_message,
    uploadCalls,               \* outcomes of GoogleDriveUploader.upload_file calls
    slackCalls,                \* SlackMessenger operations invoked, with their argument
    hist                       \* what the operator did, for stating the properties

vars == <<pc, exit_code, error, dependencies, depIdx, missing_dependency_count,
          loggedDeps, summary, argv, opts, options_dict, stack, ret, builderCalls, report,
          google_drive_upload, post_to_slack, post_or_file, upload_message,
          uploadCalls, slackCalls, hist>>

preflightVars == <<dependencies, depIdx, missing_dependency_count, loggedDeps, summary>>
parseVars == <<argv, opts, options_dict>>
callVars == <<stack, ret, builderCalls, report>>
configVars == <<google_drive_upload, post_to_slack, post_or_file>>
sinkVars == <<configVars, upload_message, uploadCalls, slackCalls>>

\* the states of config.ini on disk
ConfigFileStates == {"readable", "unreadable", "missing"}
\* values of post_or_file in the [Slack] section: the two supported ones, and another
SlackModes == {"post", "file", "pdf"}
\* what GoogleDriveUploader.upload_file() does: returns its message with the
\* link, or fails with an exception
UploadOutcomes == {"uploaded", "raises"}
\* what pkg_resources.require(dependency) does
RequireOutcomes == {"ok", "DistributionNotFound", "VersionConflict"}

\* options.get(key, default) of an empty options_dict
EmptyOptions ==
    [platform |-> None, league_id |-> None, week |-> None, game_id |-> None,
     year |-> None, save_data |-> FALSE, refresh_web_data |-> FALSE,
     playoff_prob_sims |-> None, break_ties |-> FALSE, dq_ce |-> FALSE,
     test |-> FALSE, dev_offline |-> FALSE]

NoRet == [from |-> "", week |-> None, report |-> NoReport]

InitHist ==
    [prompted |-> FALSE,        \* an input() prompt was shown
     argvParsed |-> FALSE,      \* getopt.getopt was called
     helpSeen |-> FALSE,        \* the parsed options contain -h
     explicit |-> FALSE,        \* they hold no -h, a league ID and only weeks in 1..17
     configFile |-> "",         \* what the config.ini check found
     usageError |-> FALSE,      \* the run ended on bad syntax or a bad post_or_file
     invalidLeague |-> 0,       \* answers to the default-league prompt that were neither y nor n
     rejected |-> 0,            \* league-not-found failures handled by select_league
     enteredId |-> None,        \* league ID typed at the league-ID prompt, None until one is
     weekAnswer |-> None,       \* outcome of the last valid answer to the week prompts
     invalidWeek |-> 0,         \* invalid answers in the week resolution in progress
     lastBuilt |-> NoReport,    \* the report of the last successful builder call
     uploadFailed |-> FALSE,    \* upload_file raised
     pdfCreated |-> FALSE]      \* create_pdf_report returned

Init ==
    /\ pc = "config_check"
    /\ exit_code = NoExit
    /\ error = ""
    /\ dependencies = <<>>
    /\ depIdx = 0
    /\ missing_dependency_count = 0
    /\ loggedDeps = {}
    /\ summary = [n |-> 0, word |-> ""]
    /\ argv = <<>>
    /\ opts = <<>>
    /\ options_dict = EmptyOptions
    /\ stack = <<>>
    /\ ret = NoRet
    /\ builderCalls = <<>>
    /\ report = NoReport
    /\ google_drive_upload = FALSE
    /\ post_to_slack = FALSE
    /\ post_or_file = ""
    /\ upload_message = ""
    /\ uploadCalls = <<>>
    /\ slackCalls = <<>>
    /\ hist = InitHist

\* sys.exit(status): sys.exit() with no argument ends the process with status 0
Exit(status) ==
    /\ pc' = "exited"
    /\ exit_code' = status
    /\ error' = ""

\* an exception no handler catches: traceback, status 1
Crash(exception) ==
    /\ pc' = "crashed"
    /\ exit_code' = 1
    /\ error' = exception

Goto(label) ==
    /\ pc' = label
    /\ UNCHANGED <<exit_code, error>>

(* ----------------------- module level, lines 22-36 --------------------- *)
\* os.path.isfile / os.access on config.ini
\* and config.read("config.ini"): the three settings __main__ looks up later
ConfigCheck ==
    /\ pc = "config_check"
    /\ \E file \in ConfigFileStates :
          /\ hist' = [hist EXCEPT !.configFile = file]
          /\ IF file = "readable"
             THEN /\ Goto("read_requirements")
                  /\ \E drive \in BOOLEAN, slack \in BOOLEAN, mode \in SlackModes :
                        /\ google_drive_upload' = drive
                        /\ post_to_slack' = slack
                        /\ post_or_file' = mode
             ELSE /\ Exit(0)
                  /\ UNCHANGED <<google_drive_upload, post_to_slack, post_or_file>>
    /\ UNCHANGED <<preflightVars, parseVars, callVars, upload_message, uploadCalls,
                   slackCalls>>

(* --------------------- main: preflight, lines 40-68 -------------------- *)
ReadRequirements ==
    /\ pc = "read_requirements"
    /\ \E deps \in SeqsUpTo(RequireOutcomes, MaxDeps) : dependencies' = deps
    /\ Goto("preflight")
    /\ UNCHANGED <<depIdx, missing_dependency_count, loggedDeps, summary,
                   parseVars, callVars, sinkVars, hist>>

\* only the first except clause counting the failure
RequireFailsNotFoundOnly(outcome) == outcome = "DistributionNotFound"

\* both except clauses count the failure and log the remediation line
RequireFails(outcome) == outcome \in {"DistributionNotFound", "VersionConflict"}

\* one iteration of "for dependency in dependencies"
CheckDependency ==
    /\ pc = "preflight"
    /\ depIdx < Len(dependencies)
    /\ depIdx' = depIdx + 1
    /\ IF RequireFails(dependencies[depIdx + 1])
       THEN /\ missing_dependency_count' = missing_dependency_count + 1
            /\ loggedDeps' = loggedDeps \cup {depIdx + 1}
       ELSE UNCHANGED <<missing_dependency_count, loggedDeps>>
    /\ Goto("preflight")
    /\ UNCHANGED <<dependencies, summary, parseVars, callVars, sinkVars, hist>>

\* the gate letting a single missing dependency through
PreflightGateAboveOne(count) == count > 1

\* "if missing_dependency_count > 0", after the loop
PreflightGate(count) == count > 0

\* the summary without its singular
SummaryWordPlural(count) == "DEPENDENCIES"

\* lines 65-66
SummaryWord(count) == IF count = 1 THEN "DEPENDENCY" ELSE "DEPENDENCIES"

PreflightSummary ==
    /\ pc = "preflight"
    /\ depIdx = Len(dependencies)
    /\ IF PreflightGate(missing_dependency_count)
       THEN /\ summary' = [n |-> missing_dependency_count,
                           word |-> SummaryWord(missing_dependency_count)]
            /\ Exit(0)
       ELSE /\ UNCHANGED summary
            /\ Goto("read_argv")
    /\ UNCHANGED <<dependencies, depIdx, missing_dependency_count, loggedDeps,
                   parseVars, callVars, sinkVars, hist>>

(* ------------------ main: option parsing, lines 92-139 ----------------- *)
\* main(sys.argv[1:]), line 240: the arguments the process was started with
ReadArgv ==
    /\ pc = "read_argv"
    /\ \E args \in ArgVectors : argv' = args
    /\ Goto("getopt")
    /\ UNCHANGED <<preflightVars, opts, options_dict, callVars, sinkVars, hist>>

\* the parsed options name the league and the week and leave nothing to ask
ExplicitOptions(parsed) ==
    /\ \A i \in DOMAIN parsed : OptionLetter(parsed[i].opt) # "h"
    /\ \E i \in DOMAIN parsed : OptionLetter(parsed[i].opt) = "l" /\ parsed[i].arg # ""
    /\ \E i \in DOMAIN parsed : OptionLetter(parsed[i].opt) = "w"
    /\ \A i \in DOMAIN parsed :
          OptionLetter(parsed[i].opt) = "w" => int(parsed[i].arg) \in 1..17

\* opts, args = getopt.getopt(argv, ...); GetoptError prints usage, exits 2
Getopt ==
    /\ pc = "getopt"
    /\ LET parsed == getopt(argv)
       IN  IF parsed = GetoptError
           THEN /\ Exit(2)
                /\ UNCHANGED opts
                /\ hist' = [hist EXCEPT !.argvParsed = TRUE, !.usageError = TRUE]
           ELSE /\ Goto("parse_opts")
                /\ opts' = parsed
                /\ hist' = [hist EXCEPT !.argvParsed = TRUE,
                                        !.helpSeen = \E i \in DOMAIN parsed :
                                                        OptionLetter(parsed[i].opt) = "h",
                                        !.explicit = ExplicitOptions(parsed)]
    /\ argv' = <<>>
    /\ UNCHANGED <<preflightVars, options_dict, callVars, sinkVars>>

\* the upper limit of line 111 off by one
WeekArgInvalidAbove16(arg) == int(arg) < 1 \/ int(arg) > 16

\* line 111: the -w argument is refused
WeekArgInvalid(arg) == int(arg) < 1 \/ int(arg) > 17

\* an invocation of select_league or select_week
Frame(fn, at, week, league_id) ==
    [fn |-> fn, pc |-> at, week |-> week, league_id |-> league_id,
     default |-> "", week_for_report |-> None]

Top == stack[Len(stack)]

\* the options that only store their argument or a flag
StoreOption(d, opt, arg) ==
    CASE opt = "f" -> [d EXCEPT !.platform = arg]
      [] opt = "l" -> [d EXCEPT !.league_id = arg]
      [] opt = "g" -> [d EXCEPT !.game_id = arg]
      [] opt = "y" -> [d EXCEPT !.year = arg]
      [] opt = "s" -> [d EXCEPT !.save_data = TRUE]
      [] opt = "r" -> [d EXCEPT !.refresh_web_data = TRUE]
      [] opt = "p" -> [d EXCEPT !.playoff_prob_sims = arg]
      [] opt = "b" -> [d EXCEPT !.break_ties = TRUE]
      [] opt = "q" -> [d EXCEPT !.dq_ce = TRUE]
      [] opt = "t" -> [d EXCEPT !.test = TRUE]
      [] opt = "d" -> [d EXCEPT !.dev_offline = TRUE]
      [] OTHER -> d

\* one iteration of "for opt, arg in opts"
ParseOpt ==
    /\ pc = "parse_opts"
    /\ opts # <<>>
    /\ LET opt == OptionLetter(Head(opts).opt)
           arg == Head(opts).arg
       IN  /\ opts' = Tail(opts)
           /\ CASE opt = "h" ->
                     /\ Exit(0)
                     /\ UNCHANGED <<options_dict, stack, hist>>
                [] opt = "w" ->
                     IF int(arg) = NaN
                     THEN /\ Crash("ValueError")
                          /\ UNCHANGED <<options_dict, stack, hist>>
                     ELSE IF WeekArgInvalid(arg)
                     THEN /\ Goto("main_wait_week")
                          /\ stack' = Append(stack, Frame("select_week", "sw_ask", None, None))
                          /\ hist' = [hist EXCEPT !.invalidWeek = 0, !.weekAnswer = None]
                          /\ UNCHANGED options_dict
                     ELSE /\ Goto("parse_opts")
                          /\ options_dict' = [options_dict EXCEPT !.week = arg]
                          /\ UNCHANGED <<stack, hist>>
                [] OTHER ->
                     /\ Goto("parse_opts")
                     /\ options_dict' = StoreOption(options_dict, opt, arg)
                     /\ UNCHANGED <<stack, hist>>
    /\ UNCHANGED <<preflightVars, argv, ret, builderCalls, report, sinkVars>>

\* options_dict["week"] = select_week(), line 113
MainGotWeek ==
    /\ pc = "main_wait_week"
    /\ stack = <<>>
    /\ ret.from = "select_week"
    /\ options_dict' = [options_dict EXCEPT !.week = ret.week]
    /\ ret' = NoRet
    /\ Goto("parse_opts")
    /\ UNCHANGED <<preflightVars, argv, opts, stack, builderCalls, report, sinkVars,
                   hist>>

\* return options_dict, then report = select_league(options.get(...), ...), line 242
CallSelectLeague ==
    /\ pc = "parse_opts"
    /\ opts = <<>>
    /\ Goto("wait_select_league")
    /\ stack' = <<Frame("select_league", "sl_entry", options_dict.week,
                        options_dict.league_id)>>
    /\ UNCHANGED <<preflightVars, parseVars, ret, builderCalls, report, sinkVars, hist>>

(* ------------------------ call stack plumbing -------------------------- *)
\* control is inside select_league / select_week
InCall == pc \in {"main_wait_week", "wait_select_league"}

AtTop(fn, at) ==
    /\ InCall
    /\ stack # <<>>
    /\ Top.fn = fn
    /\ Top.pc = at

SetTop(f) == [stack EXCEPT ![Len(stack)] = f]
Popped == SubSeq(stack, 1, Len(stack) - 1)

WeekRet(week) == [from |-> "select_week", week |-> week, report |-> NoReport]
ReportRet(r) == [from |-> "select_league", week |-> None, report |-> r]

(* ----------------------- select_week, lines 221-234 -------------------- *)
\* the lower limit of line 227 off by one
WeekInRangeFromZero(chosen_week) == 0 <= int(chosen_week) /\ int(chosen_week) < 18

\* line 227: the typed week is accepted
WeekInRange(chosen_week) == 0 < int(chosen_week) /\ int(chosen_week) < 18

\* lines 231 and 234 call select_week() and drop its result: the invocation
\* then runs off the end of the function, which returns None
WeekAfterRetry(result) == None

\* default = input("Generate report for default week? (y/n) -> ")
SelectWeekAsk ==
    /\ AtTop("select_week", "sw_ask")
    /\ \E default \in Answers :
          CASE default = "y" ->
                 /\ stack' = Popped
                 /\ ret' = WeekRet(None)
                 /\ hist' = [hist EXCEPT !.prompted = TRUE, !.weekAnswer = None]
            [] default = "n" ->
                 /\ stack' = SetTop([Top EXCEPT !.default = default, !.pc = "sw_ask_week"])
                 /\ hist' = [hist EXCEPT !.prompted = TRUE]
                 /\ UNCHANGED ret
            [] OTHER ->
                 /\ Len(stack) < MaxDepth
                 /\ stack' = Append(SetTop([Top EXCEPT !.default = default,
                                                       !.pc = "sw_after_rec"]),
                                    Frame("select_week", "sw_ask", None, None))
                 /\ hist' = [hist EXCEPT !.prompted = TRUE,
                                         !.invalidWeek = hist.invalidWeek + 1]
                 /\ UNCHANGED ret
    /\ UNCHANGED <<pc, exit_code, error, preflightVars, parseVars, builderCalls,
                   report, sinkVars>>

\* chosen_week = input("For which week ...? (1 - 17) -> ")
SelectWeekNumber ==
    /\ AtTop("select_week", "sw_ask_week")
    /\ \E chosen_week \in WeekTexts :
          IF int(chosen_week) = NaN
          THEN /\ Crash("ValueError")
               /\ hist' = [hist EXCEPT !.prompted = TRUE]
               /\ UNCHANGED <<stack, ret>>
          ELSE IF WeekInRange(chosen_week)
          THEN /\ stack' = Popped
               /\ ret' = WeekRet(chosen_week)
               /\ hist' = [hist EXCEPT !.prompted = TRUE, !.weekAnswer = chosen_week]
               /\ UNCHANGED <<pc, exit_code, error>>
          ELSE /\ Len(stack) < MaxDepth
               /\ stack' = Append(SetTop([Top EXCEPT !.pc = "sw_after_rec"]),
                                  Frame("select_week", "sw_ask", None, None))
               /\ hist' = [hist EXCEPT !.prompted = TRUE,
                                       !.invalidWeek = hist.invalidWeek + 1]
               /\ UNCHANGED <<pc, exit_code, error, ret>>
    /\ UNCHANGED <<preflightVars, parseVars, builderCalls, report, sinkVars>>

\* the nested select_week() came back
SelectWeekAfterRetry ==
    /\ AtTop("select_week", "sw_after_rec")
    /\ ret.from = "select_week"
    /\ stack' = Popped
    /\ ret' = WeekRet(WeekAfterRetry(ret.week))
    /\ UNCHANGED <<pc, exit_code, error, preflightVars, parseVars, builderCalls,
                   report, sinkVars, hist>>

(* ---------------------- select_league, lines 142-218 ------------------- *)
\* the nested call given the league_id of this invocation
RetryLeagueIdKept(league_id) == league_id

\* lines 193 and 217: the league_id argument of the nested select_league call
RetryLeagueId(league_id) == None

\* the try/except IndexError is around the builder call of the "n" branch only
CatchesIndexError(default) == default = "n"

\* lines 194 and 218: the nested call's result is dropped, the invocation
\* runs off the end of the function and returns None
ReportAfterRetry(result) == NoReport

\* "if not week: week_for_report = select_week() else: week_for_report = week"
\* for the invocation f, with h the history so far
WeekStep(f, h) ==
    IF Falsy(f.week)
    THEN /\ stack' = Append(SetTop([f EXCEPT !.pc = "sl_wait_week"]),
                            Frame("select_week", "sw_ask", None, None))
         /\ hist' = [h EXCEPT !.invalidWeek = 0, !.weekAnswer = None]
    ELSE /\ stack' = SetTop([f EXCEPT !.week_for_report = f.week, !.pc = "sl_build"])
         /\ hist' = h

RetryLeague(f, h) ==
    /\ stack' = Append(SetTop([f EXCEPT !.pc = "sl_after_rec"]),
                       Frame("select_league", "sl_entry", f.week,
                             RetryLeagueId(f.league_id)))
    /\ hist' = h

\* lines 144-149, 168, 195, 215: pick the branch
SelectLeagueEntry ==
    /\ AtTop("select_league", "sl_entry")
    /\ \E default \in (IF Falsy(Top.league_id) THEN Answers ELSE {"selected"}) :
          LET f == [Top EXCEPT !.default = default]
              h == [hist EXCEPT !.prompted = @ \/ Falsy(Top.league_id)]
          IN  CASE default \in {"y", "selected"} -> WeekStep(f, h)
                [] default = "n" ->
                     /\ stack' = SetTop([f EXCEPT !.pc = "sl_ask_id"])
                     /\ hist' = h
                [] OTHER ->
                     /\ Len(stack) < MaxDepth
                     /\ RetryLeague(f, [h EXCEPT !.invalidLeague = @ + 1])
    /\ UNCHANGED <<pc, exit_code, error, preflightVars, parseVars, ret,
                   builderCalls, report, sinkVars>>

\* league_id = input("What is the league ID ...? -> "), then the week
SelectLeagueId ==
    /\ AtTop("select_league", "sl_ask_id")
    /\ \E league_id \in LeagueTexts :
          /\ league_id \notin ExistingLeagues => Len(stack) < MaxDepth
          /\ WeekStep([Top EXCEPT !.league_id = league_id],
                      [hist EXCEPT !.prompted = TRUE, !.enteredId = league_id])
    /\ UNCHANGED <<pc, exit_code, error, preflightVars, parseVars, ret,
                   builderCalls, report, sinkVars>>

\* week_for_report = select_week() came back
SelectLeagueGotWeek ==
    /\ AtTop("select_league", "sl_wait_week")
    /\ ret.from = "select_week"
    /\ stack' = SetTop([Top EXCEPT !.week_for_report = ret.week, !.pc = "sl_build"])
    /\ ret' = NoRet
    /\ UNCHANGED <<pc, exit_code, error, preflightVars, parseVars, builderCalls,
                   report, sinkVars, hist>>

\* return FantasyFootballReport(week_for_report=..., league_id=..., ...)
BuildReport ==
    /\ AtTop("select_league", "sl_build")
    /\ LET league == IF Top.default = "y" THEN None ELSE Top.league_id
       IN  \E found \in (IF league = None THEN BOOLEAN ELSE {league \in ExistingLeagues}) :
              /\ builderCalls' = Append(builderCalls,
                     [week_for_report |-> Top.week_for_report, league_id |-> league,
                      found |-> found, branch |-> Top.default,
                      entered |-> hist.enteredId, retried |-> hist.rejected > 0])
              /\ IF found
                 THEN /\ stack' = Popped
                      /\ ret' = ReportRet(Len(builderCalls) + 1)
                      /\ hist' = [hist EXCEPT !.lastBuilt = Len(builderCalls) + 1]
                      /\ UNCHANGED <<pc, exit_code, error>>
                 ELSE IF CatchesIndexError(Top.default)
                 THEN /\ RetryLeague(Top, [hist EXCEPT !.rejected = @ + 1,
                                                       !.enteredId = None])
                      /\ UNCHANGED <<pc, exit_code, error, ret>>
                 ELSE /\ Crash("IndexError")
                      /\ UNCHANGED <<stack, ret, hist>>
    /\ UNCHANGED <<preflightVars, parseVars, report, sinkVars>>

\* the nested select_league(...) came back
SelectLeagueAfterRetry ==
    /\ AtTop("select_league", "sl_after_rec")
    /\ ret.from = "select_league"
    /\ stack' = Popped
    /\ ret' = ReportRet(ReportAfterRetry(ret.report))
    /\ UNCHANGED <<pc, exit_code, error, preflightVars, parseVars, builderCalls,
                   report, sinkVars, hist>>

(* -------------------------- __main__, lines 238-292 -------------------- *)
\* report = select_league(...) came back
MainGotReport ==
    /\ pc = "wait_select_league"
    /\ stack = <<>>
    /\ ret.from = "select_league"
    /\ report' = ret.report
    /\ ret' = NoRet
    /\ Goto("create_pdf")
    /\ UNCHANGED <<preflightVars, parseVars, stack, builderCalls, sinkVars, hist>>

\* report_pdf = report.create_pdf_report(): None has no such attribute
CreatePdf ==
    /\ pc = "create_pdf"
    /\ IF report = NoReport
       THEN /\ Crash("AttributeError")
            /\ UNCHANGED hist
       ELSE /\ Goto("drive")
            /\ hist' = [hist EXCEPT !.pdfCreated = TRUE]
    /\ UNCHANGED <<preflightVars, parseVars, callVars, sinkVars>>

\* the upload guard without the test-mode condition
UploadAllowedInTest(enabled, test) == enabled

\* lines 259-260 and 269-270: the sink is used
UploadAllowed(enabled, test) == enabled /\ ~test
SlackAllowed(enabled, test) == enabled /\ ~test

\* lines 257-266; upload_file() is not inside any try
DriveUpload ==
    /\ pc = "drive"
    /\ IF UploadAllowed(google_drive_upload, options_dict.test)
       THEN \E outcome \in UploadOutcomes :
               /\ uploadCalls' = Append(uploadCalls, outcome)
               /\ IF outcome = "uploaded"
                  THEN /\ upload_message' = "link"
                       /\ Goto("slack")
                       /\ UNCHANGED hist
                  ELSE /\ Crash("UploadError")
                       /\ hist' = [hist EXCEPT !.uploadFailed = TRUE]
                       /\ UNCHANGED upload_message
       ELSE /\ Goto("slack")
            /\ UNCHANGED <<upload_message, uploadCalls, hist>>
    /\ UNCHANGED <<preflightVars, parseVars, callVars, configVars, slackCalls>>

\* line 277: what is posted to the channel
PostedMessage(message) == message

\* lines 268-292
SlackPost ==
    /\ pc = "slack"
    /\ IF SlackAllowed(post_to_slack, options_dict.test)
       THEN CASE post_or_file = "post" ->
                   /\ slackCalls' = Append(slackCalls,
                          [op |-> "post_to_selected_slack_channel",
                           arg |-> PostedMessage(upload_message),
                           uploads |-> Len(uploadCalls)])
                   /\ pc' = "done" /\ exit_code' = 0 /\ UNCHANGED <<error, hist>>
              [] post_or_file = "file" ->
                   /\ slackCalls' = Append(slackCalls,
                          [op |-> "upload_file_to_selected_slack_channel",
                           arg |-> "report_pdf",
                           uploads |-> Len(uploadCalls)])
                   /\ pc' = "done" /\ exit_code' = 0 /\ UNCHANGED <<error, hist>>
              [] OTHER ->
                   /\ Exit(0)
                   /\ hist' = [hist EXCEPT !.usageError = TRUE]
                   /\ UNCHANGED slackCalls
       ELSE /\ pc' = "done" /\ exit_code' = 0 /\ UNCHANGED <<error, hist>>
            /\ UNCHANGED slackCalls
    /\ UNCHANGED <<preflightVars, parseVars, callVars, configVars, upload_message,
                   uploadCalls>>

(* --------------------------- specification ---------------------------- *)
Next ==
    \/ ConfigCheck
    \/ ReadRequirements
    \/ CheckDependency
    \/ PreflightSummary
    \/ ReadArgv
    \/ Getopt
    \/ ParseOpt
    \/ MainGotWeek
    \/ CallSelectLeague
    \/ SelectWeekAsk
    \/ SelectWeekNumber
    \/ SelectWeekAfterRetry
    \/ SelectLeagueEntry
    \/ SelectLeagueId
    \/ SelectLeagueGotWeek
    \/ BuildReport
    \/ SelectLeagueAfterRetry
    \/ MainGotReport
    \/ CreatePdf
    \/ DriveUpload
    \/ SlackPost

Spec == Init /\ [][Next]_vars

(* ---------------- option parsing on its own: both option forms --------- *)
\* arguments given to the options that take one
FormWords == {"1", "18", "good"}
\* one option of the usage text with its argument, "" for a flag
FormOptions ==
    {[c |-> c, arg |-> ""] : c \in FlagOpts}
        \cup {[c |-> c, arg |-> a] : c \in ArgOpts, a \in FormWords}

ShortTokens(o) == IF o.arg = "" THEN <<Short(o.c)>> ELSE <<Short(o.c), Word(o.arg)>>
LongTokens(o) ==
    IF o.arg = "" THEN <<Long(LongName(o.c))>> ELSE <<Long(LongName(o.c)), Word(o.arg)>>

\* argument vectors of one or two options, all in short form or all in long form
FormVectors ==
    {ShortTokens(o) : o \in FormOptions}
        \cup {LongTokens(o) : o \in FormOptions}
        \cup {ShortTokens(o1) \o ShortTokens(o2) : o1 \in FormOptions, o2 \in FormOptions}
        \cup {LongTokens(o1) \o LongTokens(o2) : o1 \in FormOptions, o2 \in FormOptions}

\* the vector with every long option replaced by its short form
ShortForm(args) ==
    [i \in DOMAIN args |->
        IF args[i].kind = "long" THEN Short(OptionLetter(args[i].name)) ELSE args[i]]

\* main(argv) about to call getopt.getopt, config.ini read and no dependency missing
InitForms ==
    /\ pc = "getopt"
    /\ argv \in FormVectors
    /\ exit_code = NoExit
    /\ error = ""
    /\ dependencies = <<>>
    /\ depIdx = 0
    /\ missing_dependency_count = 0
    /\ loggedDeps = {}
    /\ summary = [n |-> 0, word |-> ""]
    /\ opts = <<>>
    /\ options_dict = EmptyOptions
    /\ stack = <<>>
    /\ ret = NoRet
    /\ builderCalls = <<>>
    /\ report = NoReport
    /\ google_drive_upload \in BOOLEAN
    /\ post_to_slack \in BOOLEAN
    /\ post_or_file \in SlackModes
    /\ upload_message = ""
    /\ uploadCalls = <<>>
    /\ slackCalls = <<>>
    /\ hist = [InitHist EXCEPT !.configFile = "readable"]

NextForms ==
    \/ Getopt
    \/ ParseOpt

SpecForms == InitForms /\ [][NextForms]_vars

TypeOK ==
    /\ pc \in {"config_check", "read_requirements", "preflight", "read_argv", "getopt",
               "parse_opts",
               "main_wait_week", "wait_select_league", "create_pdf", "drive", "slack",
               "done", "exited", "crashed"}
    /\ exit_code \in {NoExit, 0, 1, 2}
    /\ Len(stack) <= MaxDepth + 1

(* ------------------------------ properties ---------------------------- *)
Unsatisfiable == {i \in DOMAIN dependencies : dependencies[i] # "ok"}
Ended == pc \in {"done", "exited", "crashed"}

\* C1: every week_for_report handed to FantasyFootballReport is None or a
\* text denoting a week in 1..17
C1_WeekForReportInRange ==
    \A k \in DOMAIN builderCalls :
        \/ builderCalls[k].week_for_report = None
        \/ int(builderCalls[k].week_for_report) \in 1..17

\* a week typed at the week prompt, after -w was refused or left out, reached the builder
C1_Witness ==
    /\ hist.prompted
    /\ hist.weekAnswer = "17"
    /\ \E k \in DOMAIN builderCalls : builderCalls[k].week_for_report = "17"

\* C2: when no league was rejected, whatever the number of answers that were
\* neither y nor n, select_league hands __main__ the report the builder
\* built, and the run does not die on report.create_pdf_report()
C2_LeagueResolutionReturnsReport ==
    hist.rejected = 0 =>
        /\ pc = "create_pdf" => (report # NoReport /\ report = hist.lastBuilt)
        /\ error # "AttributeError"

\* C3: the select_week invocation that main or select_league called returns
\* the outcome of the valid answer that ended the prompting: None for y,
\* the typed week for n and a week in 1..17
C3_SelectWeekReturnsAnswer ==
    (ret.from = "select_week" /\ (stack = <<>> \/ Top.fn = "select_league"))
        => ret.week = hist.weekAnswer

\* C4: with the test option set, upload_file and the two Slack operations are
\* never invoked, whatever config.ini enables
C4_TestModeIsolation ==
    options_dict.test => (uploadCalls = <<>> /\ slackCalls = <<>>)

\* a test run ran to its end with both sinks enabled in config.ini
C4_Witness ==
    /\ pc = "done"
    /\ options_dict.test
    /\ google_drive_upload
    /\ post_to_slack
    /\ hist.pdfCreated

\* C5: in a run with both sinks enabled and a supported post_or_file, a failed
\* upload neither aborts the run nor keeps Slack from being invoked
C5_UploadFailureIsolated ==
    (hist.uploadFailed /\ post_to_slack /\ post_or_file \in {"post", "file"})
        => /\ pc # "crashed"
           /\ Ended => slackCalls # <<>>

\* C6: post_to_selected_slack_channel is only ever given the link a
\* successful upload of this run returned
C6_PostOnlyUploadedLink ==
    \A k \in DOMAIN slackCalls :
        slackCalls[k].op = "post_to_selected_slack_channel"
            => /\ slackCalls[k].arg = "link"
               /\ \E u \in DOMAIN uploadCalls : uploadCalls[u] = "uploaded"

\* C7: once the scan is over every unsatisfiable dependency has its own log
\* line, and a run with an unsatisfiable dependency never gets to parse
\* arguments, prompt, build or distribute: it is scanning or has exited
C7_PreflightScansAllAndGates ==
    /\ pc \notin {"config_check", "read_requirements", "preflight"}
           => loggedDeps = Unsatisfiable
    /\ Unsatisfiable # {}
           => /\ pc \in {"preflight", "exited"}
              /\ ~hist.argvParsed
              /\ ~hist.prompted
              /\ builderCalls = <<>>
              /\ uploadCalls = <<>>
              /\ slackCalls = <<>>

\* a list with one entry of each failure kind was scanned to its end and the process exited
C7_Witness ==
    /\ pc = "exited"
    /\ Len(dependencies) = 2
    /\ dependencies[1] = "VersionConflict"
    /\ dependencies[2] = "DistributionNotFound"
    /\ loggedDeps = {1, 2}

\* C8: after a rejected league ID, the invocation that restarts the resolution
\* starts with no league ID (so it prompts), and every later builder call is
\* given either no league ID or the one typed since the rejection
C8_RetryUsesClearedLeagueId ==
    /\ \A i \in DOMAIN stack :
          (hist.rejected > 0 /\ stack[i].fn = "select_league" /\ stack[i].pc = "sl_entry")
              => stack[i].league_id = None
    /\ \A k \in DOMAIN builderCalls :
          builderCalls[k].retried
              => builderCalls[k].league_id \in {None, builderCalls[k].entered}

\* a league ID was rejected, the operator was asked again and typed one the builder accepted
C8_Witness ==
    /\ hist.rejected > 0
    /\ \E k \in DOMAIN builderCalls :
          /\ builderCalls[k].retried
          /\ builderCalls[k].found
          /\ builderCalls[k].league_id = "good"
          /\ builderCalls[k].entered = "good"

\* C9: after league-not-found failures (and no answer other than y or n),
\* once the builder accepts a league its report is what __main__ gets, and
\* the run goes on to create_pdf_report
C9_RejectedLeagueRecovers ==
    (hist.rejected > 0 /\ hist.invalidLeague = 0) =>
        /\ pc = "create_pdf" => (report # NoReport /\ report = hist.lastBuilt)
        /\ error # "AttributeError"

\* C10: a builder failure "league does not exist" never ends the run, on any
\* of the three branches
C10_LeagueNotFoundNeverFatal ==
    /\ error # "IndexError"
    /\ \A k \in DOMAIN builderCalls :
          (~builderCalls[k].found /\ k = Len(builderCalls)) => pc # "crashed"

\* C11: a run that ends on a usage error (malformed command line, or an
\* unsupported post_or_file) ends with a non-zero status and has called
\* neither sink
C11_UsageErrorNonZeroNoSideEffects ==
    hist.usageError =>
        /\ pc = "exited"
        /\ exit_code > 0
        /\ uploadCalls = <<>>
        /\ slackCalls = <<>>

\* C12: with config.ini missing or unreadable the process exits with a
\* non-zero status, before any dependency check, parsing, prompt or report work
C12_ConfigFailureExitsNonZero ==
    hist.configFile \in {"missing", "unreadable"} =>
        /\ pc = "exited"
        /\ exit_code > 0
        /\ depIdx = 0
        /\ ~hist.argvParsed
        /\ ~hist.prompted
        /\ builderCalls = <<>>

\* C13: when the parsed options contain -h (and no -w text int() refuses, which
\* C15 is about), no prompt is ever shown, no report is built, nothing is
\* distributed, and the run can only end by exiting with 0
C13_HelpShortCircuits ==
    (hist.helpSeen /\ error # "ValueError") =>
        /\ ~hist.prompted
        /\ builderCalls = <<>>
        /\ uploadCalls = <<>>
        /\ slackCalls = <<>>
        /\ Ended => (pc = "exited" /\ exit_code = 0)

\* C14: getopt accepts an argument vector of long-form options and returns
\* for it the options its short-form equivalent yields
C14_LongFormsEquivalent ==
    [][(pc = "getopt" /\ pc' # "getopt" /\ getopt(ShortForm(argv)) # GetoptError)
          => LET expected == getopt(ShortForm(argv))
             IN  /\ pc' = "parse_opts"
                 /\ Len(opts') = Len(expected)
                 /\ \A i \in DOMAIN expected :
                       /\ OptionLetter(opts'[i].opt) = expected[i].opt
                       /\ opts'[i].arg = expected[i].arg]_vars

\* C15: a week text that is not a number, given with -w or typed at the week
\* prompt, never ends the run with the ValueError of int()
C15_NonNumericWeekNeverAborts ==
    error # "ValueError"

\* C16: in a run given a league ID and only weeks in 1..17 (and no -h), no
\* prompt is shown, the builder is called at most once, with that league ID
\* and week, and it has been called once when select_league is over
C16_ExplicitFlagsAuthoritative ==
    hist.explicit =>
        /\ ~hist.prompted
        /\ Len(builderCalls) <= 1
        /\ \A k \in DOMAIN builderCalls :
              /\ builderCalls[k].league_id = options_dict.league_id
              /\ builderCalls[k].week_for_report = options_dict.week
              /\ ~Falsy(builderCalls[k].league_id)
              /\ int(builderCalls[k].week_for_report) \in 1..17
        /\ pc \in {"create_pdf", "drive", "slack", "done"} => Len(builderCalls) = 1

\* a run with -l good -w 17 ran to its end
C16_Witness ==
    /\ hist.explicit
    /\ pc = "done"
    /\ Len(builderCalls) = 1
    /\ builderCalls[1].league_id = "good"
    /\ builderCalls[1].week_for_report = "17"

\* C17: the builder is only called on the y branch, on the n branch with a
\* typed league ID, or on the "selected" branch with a league ID from the
\* command line; an answer other than y or n never gets to it
C17_OnlyYOrNReachBuilder ==
    \A k \in DOMAIN builderCalls :
        \/ builderCalls[k].branch = "y"
        \/ builderCalls[k].branch = "n" /\ builderCalls[k].league_id \in LeagueTexts
        \/ /\ builderCalls[k].branch = "selected"
           /\ builderCalls[k].league_id = options_dict.league_id
           /\ ~Falsy(builderCalls[k].league_id)

\* C18: the builder is called only after the scan ended with no failure, a
\* sink only after create_pdf_report returned, and no upload is made once a
\* Slack operation has been invoked
C18_PipelineOrder ==
    /\ builderCalls # <<>>
          => /\ depIdx = Len(dependencies)
             /\ Unsatisfiable = {}
             /\ missing_dependency_count = 0
             /\ pc \notin {"config_check", "read_requirements", "preflight"}
    /\ (uploadCalls # <<>> \/ slackCalls # <<>>) => hist.pdfCreated
    /\ \A k \in DOMAIN slackCalls : slackCalls[k].uploads = Len(uploadCalls)

\* two dependencies were checked, the report was uploaded and then posted
C18_Witness ==
    /\ pc = "done"
    /\ Len(dependencies) = 2
    /\ uploadCalls = <<"uploaded">>
    /\ Len(slackCalls) = 1
    /\ slackCalls[1].uploads = 1
    /\ builderCalls # <<>>

\* C19: however many invalid answers were given, no more than the two
\* invocations of a run without them (select_league and its select_week)
\* are active
C19_NestingDepthBounded ==
    Len(stack) <= 2

\* C20: once the scan is over the summary line gives the number of
\* unsatisfiable entries, with DEPENDENCY for one and DEPENDENCIES for more;
\* with none there is no summary and the run goes on to the arguments
C20_PreflightSummary ==
    LET scanned == /\ hist.configFile = "readable"
                   /\ pc \notin {"config_check", "read_requirements", "preflight"}
    IN  /\ scanned => summary.n = Cardinality(Unsatisfiable)
        /\ ~scanned => summary.n = 0
        /\ summary.n = 0 => summary.word = ""
        /\ summary.n = 1 => summary.word = "DEPENDENCY"
        /\ summary.n > 1 => summary.word = "DEPENDENCIES"
        /\ summary.n > 0 => pc = "exited"
        /\ (scanned /\ summary.n = 0 /\ pc = "exited") => hist.argvParsed

\* two entries failed and the summary said so
C20_Witness ==
    /\ pc = "exited"
    /\ Cardinality(Unsatisfiable) = 2
    /\ summary = [n |-> 2, word |-> "DEPENDENCIES"]

====
